---- MODULE Spec2Model ----
(***************************************************************************)
(* Frame timeline, edit-commit protocol and playback of src/src/App.js.    *)
(*                                                                         *)
(* App is a React function component.  Its state lives in useState hooks;  *)
(* every handler and effect is a closure over the values of the render     *)
(* that created it.  The model keeps, per hook that can receive deferred   *)
(* updates, the rendered value (frames, currentFrame, dirty), the base     *)
(* value and the queue of updates not yet rendered (React's update queue   *)
(* with rebasing):                                                         *)
(*   - a click is a discrete event: its updates are rendered synchronously *)
(*     at the end of the handler, ahead of deferred updates that are still *)
(*     queued;                                                             *)
(*   - pointer-move, interval callbacks and updates made inside effects    *)
(*     are deferred: they are queued and rendered together, in queue       *)
(*     order, by a later render;                                           *)
(*   - useEffect callbacks of a render are flushed later in one go, in     *)
(*     declaration order, and always before the next render starts.        *)
(* The canvas is outside React: drawing on it and reading it are immediate.*)
(*                                                                         *)
(* A raster surface is abstracted to the set of pixels painted on it; the  *)
(* stroke geometry (lastPt, colour, tool) is not modelled.                 *)
(*                                                                         *)
(* nEvents bounds the input events of a run; last and discard are history  *)
(* variables that the properties at the end of the module read.            *)
(***************************************************************************)
EXTENDS Integers, Sequences, FiniteSets, TLC

\* ---------------------------------------------------------------- bounds
MaxFrames == 3          \* addFrame is disabled at this length
MaxPix == 2             \* pixels a stroke can paint are 1..MaxPix
MaxPending == 2         \* deferred updates queued per hook
MaxExports == 1         \* exports started in one run
MaxEvents == 6          \* input events (pointer, click, timer) in one run

Pixels == 1..MaxPix

VARIABLES
    frames,         \* useState([null]): rendered value, a sequence of frames
    currentFrame,   \* useState(0): rendered value, 0-based
    playing,        \* useState(false)
    drawing,        \* useState(false)
    dirty,          \* useState(false): rendered value
    bFrames, qFrames,   \* frames hook: base value, queued updates
    bCur, qCur,         \* currentFrame hook: base value, queued updates
    pDirty,             \* dirty hook: last queued value, "none" when empty
    canvas,         \* pixels on the live <canvas>
    timers,         \* active setInterval timers: the frames.length each closed over
    loadPend,       \* load-frame effect scheduled by the last render
    commitPend,     \* commit-on-dirty effect scheduled by the last render
    playPend,       \* playback effect scheduled by the last render
    exportJob,      \* the pending promise chain of handleExport
    downloads,      \* archives handed to the browser for download
    nEvents,        \* input events handled so far (bounds the run)
    discard,        \* the last navigation away from unsaved strokes (history)
    last            \* the last step taken (history)

vars == <<frames, currentFrame, playing, drawing, dirty, bFrames, qFrames,
          bCur, qCur, pDirty, canvas, timers, loadPend, commitPend, playPend,
          exportJob, downloads, nEvents, discard, last>>

\* ---------------------------------------------------------------- values
\* getEmptyFrame(): null, the blank frame.
getEmptyFrame == [img |-> FALSE, px |-> {}]

\* ctx.getImageData(0, 0, w, h): an ImageData object (never null) holding the
\* pixels of the canvas.
cloneImageData(cv) == [img |-> TRUE, px |-> cv]

\* frames[i] of JavaScript, 0-based; undefined outside the array is falsy
\* like null.
FrameAt(fs, i) == IF i >= 0 /\ i < Len(fs) THEN fs[i + 1] ELSE getEmptyFrame

Min(a, b) == IF a < b THEN a ELSE b

\* ---------------------------------------------------------------- updaters
\* addFrame's updater: [...f.slice(0, c + 1), null, ...f.slice(c + 1)].
InsertAfter(f, c) ==
    LET k == Min(c + 1, Len(f))
    IN  SubSeq(f, 1, k) \o <<getEmptyFrame>> \o SubSeq(f, k + 1, Len(f))

\* Mutant of LoadFrame: putImageData without the clearRect before it, so a
\* blank frame leaves the canvas as it was.
LoadFrameNoClear(fs, c) == IF FrameAt(fs, c).img THEN FrameAt(fs, c).px ELSE canvas

\* Mutant of Splice: splice(c) without the delete count removes to the end.
SpliceToEnd(f, c) == SubSeq(f, 1, c)

\* deleteFrame's updater: nf = [...f]; nf.splice(c, 1).
Splice(f, c) ==
    IF c < Len(f) THEN SubSeq(f, 1, c) \o SubSeq(f, c + 2, Len(f)) ELSE f

\* f.map((x, i) => (i === c ? img : x)).
MapSet(f, c, img) == [i \in 1..Len(f) |-> IF i - 1 = c THEN img ELSE f[i]]

\* One queued update of the frames hook applied to a value of the hook.
ApplyF(u, f) ==
    CASE u.op = "insert" -> InsertAfter(f, u.at)
      [] u.op = "splice" -> Splice(f, u.at)
      [] u.op = "set"    -> MapSet(f, u.at, u.img)

\* Mutant of TickNext: playback that stops at the last frame instead of
\* wrapping around.
TickNoWrap(prev, n) == IF prev + 1 < n THEN prev + 1 ELSE prev

\* The interval callback's updater: prev => (prev + 1) % frames.length.
TickNext(prev, n) == (prev + 1) % n

\* deleteFrame's cursor updater: f => (f > 0 ? f - 1 : 0).
DeleteCursor(c) == IF c > 0 THEN c - 1 ELSE 0

\* addFrame's cursor updater: c => c + 1.
AddCursor(c) == c + 1

\* One queued update of the currentFrame hook applied to a value of the hook.
ApplyC(u, c) ==
    CASE u.op = "inc"  -> AddCursor(c)
      [] u.op = "dec"  -> DeleteCursor(c)
      [] u.op = "set"  -> u.v
      [] u.op = "tick" -> TickNext(c, u.v)

RECURSIVE FoldF(_, _)
FoldF(q, f) == IF q = <<>> THEN f ELSE FoldF(Tail(q), ApplyF(Head(q), f))

RECURSIVE FoldC(_, _)
FoldC(q, c) == IF q = <<>> THEN c ELSE FoldC(Tail(q), ApplyC(Head(q), c))

UF(op, at, img) == [op |-> op, at |-> at, img |-> img]
UC(op, v) == [op |-> op, v |-> v]

\* ---------------------------------------------------------------- export
\* Mutant of ZipFiles: files numbered by the count of exported files so far,
\* the numbering that compacts around skipped frames.
ZipFilesCompacted(fs) ==
    {[name |-> Cardinality({j \in 1..i : fs[j].img}), px |-> fs[i].px] :
        i \in {j \in 1..Len(fs) : fs[j].img}}

\* frames.forEach((img, i) => { if (img) zip.file(`frame${i + 1}.png`, ...) }):
\* one file per truthy frame, named by its 1-based position.
ZipFiles(fs) ==
    {[name |-> i, px |-> fs[i].px] : i \in {j \in 1..Len(fs) : fs[j].img}}

NoJob == [phase |-> "idle", snap |-> <<>>, files |-> {}]

\* ---------------------------------------------------------------- effects
\* Load-frame effect: clearRect, then putImageData when frames[currentFrame]
\* is truthy.  The result is the canvas content.
LoadFrame(fs, c) == IF FrameAt(fs, c).img THEN FrameAt(fs, c).px ELSE {}

\* Mutant of ClearInterval: a playback effect without its cleanup.
NoClearInterval(ts) == ts

\* Cleanup of the playback effect: clearInterval(timer) of the timer the
\* previous run created.
ClearInterval(ts) == IF ts = <<>> THEN ts ELSE SubSeq(ts, 1, Len(ts) - 1)

\* Playback effect: nothing when not playing, else setInterval with a
\* callback that closes over frames.length of this render.
StartInterval(ts, p, n) == IF p THEN Append(ts, n) ELSE ts

\* The passive effects of the last render, flushed in declaration order on
\* the rendered values they closed over.
FlCanvas == IF loadPend THEN LoadFrame(frames, currentFrame) ELSE canvas
FlCommits == commitPend /\ dirty
FlImg == cloneImageData(FlCanvas)
FlTimers ==
    IF playPend THEN StartInterval(ClearInterval(timers), playing, Len(frames))
    ELSE timers
EffectsPending == loadPend \/ commitPend \/ playPend
UpdatesPending == qFrames # <<>> \/ qCur # <<>> \/ pDirty # "none"

\* The update the commit-on-dirty effect queues:
\* setFrames(frames => frames.map((f, i) => (i === currentFrame ? img : f))).
CommitUpdate == UF("set", currentFrame, FlImg)

\* Mutant of LoadDeps: the load-frame effect depending on currentFrame only.
LoadDepsCursorOnly(c0, c1, framesUpdated) == c0 # c1

\* useEffect(..., [currentFrame, frames]): frames is compared by identity, and
\* every setFrames updater returns a new array.
LoadDeps(c0, c1, framesUpdated) == c0 # c1 \/ framesUpdated

\* useEffect(..., [playing, frames.length]).
PlayDeps(p0, p1, n0, n1) == p0 # p1 \/ n0 # n1

\* Mutant of CommitDeps: the commit effect without its dependency array runs
\* after every render.
CommitDepsEveryRender(d0, d1) == TRUE

\* useEffect(..., [dirty]).
CommitDeps(d0, d1) == d0 # d1

\* ---------------------------------------------------------------- history
\* Pixels stroked on the live surface that frames[currentFrame] does not hold
\* while a setDirty(true) is rendered or queued.
Uncommitted ==
    IF dirty \/ pDirty = "t"
    THEN canvas \ FrameAt(frames, currentFrame).px ELSE {}

\* A commit of those pixels is already under way: the commit-on-dirty effect
\* is scheduled, or the queued updates will store them in the current slot.
CommitInFlight ==
    \/ FlCommits
    \/ FrameAt(FoldF(qFrames, bFrames), currentFrame).px \cap Uncommitted # {}

NoDiscard == [at |-> -1, px |-> {}, late |-> FALSE]

\* The record of a step that moves the cursor away from unsaved strokes.
NextDiscard(keep) ==
    IF currentFrame' # currentFrame /\ Uncommitted # {}
    THEN [at |-> currentFrame, px |-> Uncommitted, late |-> CommitInFlight]
    ELSE IF keep THEN discard ELSE NoDiscard

\* An input event (a DOM event or an interval callback) is dispatched; the
\* run handles at most MaxEvents of them.
Event(name) == nEvents < MaxEvents /\ nEvents' = nEvents + 1 /\ last' = name

\* A step of the runtime itself: a render, an effect flush, a promise callback.
Internal(name) == nEvents' = nEvents /\ last' = name

Init ==
    /\ frames = <<getEmptyFrame>>
    /\ currentFrame = 0
    /\ playing = FALSE
    /\ drawing = FALSE
    /\ dirty = FALSE
    /\ bFrames = <<getEmptyFrame>>
    /\ qFrames = <<>>
    /\ bCur = 0
    /\ qCur = <<>>
    /\ pDirty = "none"
    /\ canvas = {}
    /\ timers = <<>>
    /\ loadPend = TRUE      \* every effect runs after the first render
    /\ commitPend = TRUE
    /\ playPend = TRUE
    /\ exportJob = NoJob
    /\ downloads = <<>>
    /\ nEvents = 0
    /\ discard = NoDiscard
    /\ last = "mount"

\* The deferred flush of the last render's effects.
FlushEffects ==
    /\ EffectsPending
    /\ canvas' = FlCanvas
    /\ timers' = FlTimers
    /\ qFrames' = IF FlCommits THEN Append(qFrames, CommitUpdate) ELSE qFrames
    /\ pDirty' = IF FlCommits THEN "f" ELSE pDirty
    /\ loadPend' = FALSE
    /\ commitPend' = FALSE
    /\ playPend' = FALSE
    /\ Internal("effects")
    /\ UNCHANGED discard
    /\ UNCHANGED <<frames, currentFrame, playing, drawing, dirty, bFrames,
                   bCur, qCur, exportJob, downloads>>

\* The queue holds interval callbacks' updates and nothing else.
OnlyTicks(q) == q # <<>> /\ \A k \in 1..Len(q) : q[k].op = "tick"

\* A render of the deferred updates: every queue is processed in order from
\* its base value.  React flushes the previous render's effects first.
Render ==
    /\ UpdatesPending
    /\ ~EffectsPending
    /\ frames' = FoldF(qFrames, bFrames)
    /\ bFrames' = frames'
    /\ qFrames' = <<>>
    /\ currentFrame' = FoldC(qCur, bCur)
    /\ bCur' = currentFrame'
    /\ qCur' = <<>>
    /\ dirty' = IF pDirty = "none" THEN dirty ELSE pDirty = "t"
    /\ pDirty' = "none"
    /\ loadPend' = LoadDeps(currentFrame, currentFrame', qFrames # <<>>)
    /\ commitPend' = CommitDeps(dirty, dirty')
    /\ playPend' = PlayDeps(playing, playing, Len(frames), Len(frames'))
    /\ Internal(IF OnlyTicks(qCur) THEN "ticks" ELSE "render")
    /\ discard' = NextDiscard(TRUE)
    /\ UNCHANGED <<playing, drawing, canvas, timers, exportJob, downloads>>

\* A discrete event: the handler has queued ufs on the frames hook, ucs on
\* the currentFrame hook and dv on the dirty hook, and set playing and
\* drawing to pl and dr.  The synchronous render that ends the event first
\* flushes pending effects (their updates stay queued behind the handler's),
\* then renders the handler's updates on top of the rendered values.
SyncRender(ufs, ucs, dv, pl, dr) ==
    /\ frames' = FoldF(ufs, frames)
    /\ bFrames' = IF qFrames = <<>> THEN frames' ELSE bFrames
    /\ qFrames' = LET q1 == IF qFrames = <<>> THEN <<>> ELSE qFrames \o ufs
                  IN  IF FlCommits THEN Append(q1, CommitUpdate) ELSE q1
    /\ currentFrame' = FoldC(ucs, currentFrame)
    /\ bCur' = IF qCur = <<>> THEN currentFrame' ELSE bCur
    /\ qCur' = IF qCur = <<>> THEN <<>> ELSE qCur \o ucs
    /\ dirty' = IF dv = "none" THEN dirty ELSE dv = "t"
    /\ pDirty' = IF FlCommits THEN "f"
                 ELSE IF pDirty = "none" \/ dv = "none" THEN pDirty ELSE dv
    /\ playing' = pl
    /\ drawing' = dr
    /\ canvas' = FlCanvas
    /\ timers' = FlTimers
    /\ loadPend' = LoadDeps(currentFrame, currentFrame', ufs # <<>>)
    /\ commitPend' = CommitDeps(dirty, dirty')
    /\ playPend' = PlayDeps(playing, pl, Len(frames), Len(frames'))
    /\ UNCHANGED <<exportJob, downloads>>

\* Room for the handler's updates behind deferred ones (model bound).
Room == Len(qFrames) < MaxPending /\ Len(qCur) < MaxPending

\* handlePointerDown: tool is always "brush".
handlePointerDown ==
    /\ ~drawing
    /\ SyncRender(<<>>, <<>>, "none", playing, TRUE)
    /\ Event("down")
    /\ UNCHANGED discard

\* handlePointerUp (pointer-up and pointer-leave).
handlePointerUp ==
    /\ drawing
    /\ SyncRender(<<>>, <<>>, "none", playing, FALSE)
    /\ Event("up")
    /\ UNCHANGED discard

\* handlePointerMove: strokes a segment onto the canvas at once, queues
\* setLastPt and setDirty(true); the render is deferred.
handlePointerMove ==
    /\ drawing
    /\ \E p \in Pixels : canvas' = canvas \cup {p}
    /\ pDirty' = "t"
    /\ Event("move")
    /\ discard' = NoDiscard
    /\ UNCHANGED <<frames, currentFrame, playing, drawing, dirty, bFrames,
                   qFrames, bCur, qCur, timers, loadPend, commitPend, playPend,
                   exportJob, downloads>>

\* addFrame: the inserted position is the handler's closure currentFrame, the
\* cursor update is functional.
addFrame ==
    /\ Len(frames) < MaxFrames
    /\ Room
    /\ SyncRender(<<UF("insert", currentFrame, getEmptyFrame)>>,
                  <<UC("inc", 0)>>, "none", playing, drawing)
    /\ Event("add")
    /\ discard' = NextDiscard(FALSE)

\* Mutant of deleteFrame: the guard is off by one (frames.length < 1).
deleteFrameOffByOne ==
    IF Len(frames) < 1
    THEN /\ Event("deleteNoop")
         /\ UNCHANGED <<frames, currentFrame, playing, drawing, dirty, bFrames,
                        qFrames, bCur, qCur, pDirty, canvas, timers, loadPend,
                        commitPend, playPend, exportJob, downloads, discard>>
    ELSE /\ Room
         /\ SyncRender(<<UF("splice", currentFrame, getEmptyFrame)>>,
                       <<UC("dec", 0)>>, "none", playing, drawing)
         /\ Event("delete")
         /\ discard' = NoDiscard

\* deleteFrame: returns at once when frames.length < 2.
deleteFrame ==
    IF Len(frames) < 2
    THEN /\ Event("deleteNoop")
         /\ UNCHANGED discard
         /\ UNCHANGED <<frames, currentFrame, playing, drawing, dirty, bFrames,
                        qFrames, bCur, qCur, pDirty, canvas, timers, loadPend,
                        commitPend, playPend, exportJob, downloads>>
    ELSE /\ Room
         /\ SyncRender(<<UF("splice", currentFrame, getEmptyFrame)>>,
                       <<UC("dec", 0)>>, "none", playing, drawing)
         /\ Event("delete")
         /\ discard' = NoDiscard

\* copyFrame (the Save Frame button): reads the canvas in the handler.
copyFrame ==
    /\ Room
    /\ SyncRender(<<UF("set", currentFrame, cloneImageData(canvas))>>,
                  <<>>, "f", playing, drawing)
    /\ Event("copy")
    /\ discard' = NoDiscard

\* Thumbnail onClick: setCurrentFrame(i), i an index of the rendered frames.
selectFrame ==
    /\ Room
    /\ \E i \in 0..(Len(frames) - 1) :
          SyncRender(<<>>, <<UC("set", i)>>, "none", playing, drawing)
    /\ Event("select")
    /\ discard' = NextDiscard(TRUE)

\* Play/Pause button: setPlaying(p => !p).
togglePlaying ==
    /\ SyncRender(<<>>, <<>>, "none", ~playing, drawing)
    /\ Event("toggle")
    /\ UNCHANGED discard

\* The setInterval callback of an active timer: queues
\* setCurrentFrame(prev => (prev + 1) % n), n the length the timer closed over.
tick ==
    /\ Len(qCur) < MaxPending
    /\ \E k \in 1..Len(timers) : qCur' = Append(qCur, UC("tick", timers[k]))
    /\ Event("tick")
    /\ UNCHANGED discard
    /\ UNCHANGED <<frames, currentFrame, playing, drawing, dirty, bFrames,
                   qFrames, bCur, pDirty, canvas, timers, loadPend, commitPend,
                   playPend, exportJob, downloads>>

\* handleExport: starts import("jszip"); the callback closes over the frames
\* of the render the handler belongs to.  No state is set, nothing renders.
handleExport ==
    /\ exportJob.phase \in {"idle", "unhandled"}
    /\ Len(downloads) < MaxExports
    /\ exportJob' = [phase |-> "import", snap |-> frames, files |-> {}]
    /\ Event("export")
    /\ UNCHANGED discard
    /\ UNCHANGED <<frames, currentFrame, playing, drawing, dirty, bFrames,
                   qFrames, bCur, qCur, pDirty, canvas, timers, loadPend,
                   commitPend, playPend, downloads>>

\* Mutant of exportFill: the zip is filled from the frames rendered when the
\* import resolves instead of the frames the handler closed over.
exportFillLive ==
    /\ exportJob.phase = "import"
    /\ exportJob' = [phase |-> "generate", snap |-> exportJob.snap,
                     files |-> ZipFiles(frames)]
    /\ UNCHANGED <<frames, currentFrame, playing, drawing, dirty, bFrames,
                   qFrames, bCur, qCur, pDirty, canvas, timers, loadPend,
                   commitPend, playPend, downloads, nEvents, discard, last>>

\* import("jszip") resolved: the zip is filled from the closed-over frames and
\* generateAsync is started.
exportFill ==
    /\ exportJob.phase = "import"
    /\ exportJob' = [phase |-> "generate", snap |-> exportJob.snap,
                     files |-> ZipFiles(exportJob.snap)]
    /\ UNCHANGED <<frames, currentFrame, playing, drawing, dirty, bFrames,
                   qFrames, bCur, qCur, pDirty, canvas, timers, loadPend,
                   commitPend, playPend, downloads, nEvents, discard, last>>

\* import("jszip") rejects, or putImageData / toDataURL / zip.file throws in
\* the callback: the promise returned by then(...) is rejected before
\* generateAsync is called.  then(...) has no second argument and no catch
\* follows, so the rejection is unhandled: no state is set, nothing is
\* rendered, nothing is downloaded.
exportFillFails ==
    /\ exportJob.phase = "import"
    /\ exportJob' = [phase |-> "unhandled", snap |-> <<>>, files |-> {}]
    /\ UNCHANGED <<frames, currentFrame, playing, drawing, dirty, bFrames,
                   qFrames, bCur, qCur, pDirty, canvas, timers, loadPend,
                   commitPend, playPend, downloads, nEvents, discard, last>>

\* generateAsync rejects: the download callback never runs and, again, no
\* rejection handler exists.
exportGenerateFails ==
    /\ exportJob.phase = "generate"
    /\ exportJob' = [phase |-> "unhandled", snap |-> <<>>, files |-> {}]
    /\ UNCHANGED <<frames, currentFrame, playing, drawing, dirty, bFrames,
                   qFrames, bCur, qCur, pDirty, canvas, timers, loadPend,
                   commitPend, playPend, downloads, nEvents, discard, last>>

\* generateAsync resolved: the blob is downloaded as animation.zip.
exportDownload ==
    /\ exportJob.phase = "generate"
    /\ downloads' = Append(downloads, exportJob.files)
    /\ exportJob' = NoJob
    /\ UNCHANGED <<frames, currentFrame, playing, drawing, dirty, bFrames,
                   qFrames, bCur, qCur, pDirty, canvas, timers, loadPend,
                   commitPend, playPend, nEvents, discard, last>>

Next ==
    \/ handleExport
    \/ exportFill
    \/ exportFillFails
    \/ exportGenerateFails
    \/ exportDownload
    \/ FlushEffects
    \/ Render
    \/ handlePointerDown
    \/ handlePointerUp
    \/ handlePointerMove
    \/ addFrame
    \/ deleteFrame
    \/ copyFrame
    \/ selectFrame
    \/ togglePlaying
    \/ tick

Spec == Init /\ [][Next]_vars

\* ---------------------------------------------------------------- claims
\* A step that dispatched the input event `name`.
Did(name) == nEvents' = nEvents + 1 /\ last' = name

\* Nothing is left for React to do: no queued update, no scheduled effect.
AtRest == ~UpdatesPending /\ ~EffectsPending

\* C1: in every reachable state the frame list has length >= 1.
C1_LengthAtLeastOne == Len(frames) >= 1

\* C1 witness: a deleteFrame has just brought the list down to one frame.
C1_Witness == last = "delete" /\ Len(frames) = 1

\* C2: in every reachable state 0 <= currentFrame < frames.length.
C2_CursorInRange == 0 <= currentFrame /\ currentFrame < Len(frames)

\* C3: dirty never remains true forever.  Stated on finite runs: once React
\* has nothing left to do (no queued update, no scheduled effect), the commit
\* has been performed and dirty is false again.
C3_DirtyCleared == AtRest => ~dirty

\* C4: at every step that changes currentFrame or starts handleExport, dirty
\* is false (rendered and queued) and the live surface equals
\* frames[currentFrame].
C4_CommitBeforeCursorChange ==
    [][(currentFrame' # currentFrame \/ Did("export"))
         => (~dirty /\ pDirty # "t"
             /\ canvas = LoadFrame(frames, currentFrame))]_vars

\* C5: addFrame grows the list by one, moves the cursor to old cursor + 1, the
\* frame at the new cursor is the inserted blank frame and every earlier frame
\* keeps its content and relative order.
C5_AddFrame ==
    [][Did("add")
         => (/\ Len(frames') = Len(frames) + 1
             /\ currentFrame' = currentFrame + 1
             /\ currentFrame' < Len(frames')
             /\ frames'[currentFrame' + 1] = getEmptyFrame
             /\ \A i \in 1..Len(frames) :
                   frames'[IF i <= currentFrame + 1 THEN i ELSE i + 1]
                     = frames[i])]_vars

\* C6: deleteFrame with length >= 2 removes exactly the frame at the cursor
\* and sets the cursor to max(0, cursor - 1).
C6_DeleteFrame ==
    [][(Did("delete") /\ Len(frames) >= 2)
         => (/\ Len(frames') = Len(frames) - 1
             /\ currentFrame' = (IF currentFrame > 0 THEN currentFrame - 1 ELSE 0)
             /\ \A i \in 1..Len(frames') :
                   frames'[i] = frames[IF i <= currentFrame THEN i ELSE i + 1])
       ]_vars

\* C7: deleteFrame with a single frame left changes nothing: length, cursor,
\* frame 0, dirty, playing, and nothing is queued or scheduled.
C7_DeleteLastIsNoop ==
    [][((Did("delete") \/ Did("deleteNoop")) /\ Len(frames) < 2)
         => UNCHANGED <<frames, currentFrame, dirty, playing, drawing, bFrames,
                        qFrames, bCur, qCur, pDirty, canvas, timers, loadPend,
                        commitPend, playPend>>]_vars

\* C7 witness: a refused delete on a single, drawn frame while playing.
C7_Witness ==
    last = "deleteNoop" /\ Len(frames) = 1 /\ frames[1].img /\ playing

\* C8: Save Frame stores exactly the live surface at the time of the call in
\* frames[currentFrame], clears dirty and leaves length, cursor and every
\* other frame unchanged; on an already saved surface it changes no content.
C8_CopyFrame ==
    [][Did("copy")
         => (/\ Len(frames') = Len(frames)
             /\ currentFrame' = currentFrame
             /\ currentFrame < Len(frames)
             /\ frames'[currentFrame + 1] = cloneImageData(canvas)
             /\ ~dirty'
             /\ \A i \in 1..Len(frames) :
                   i # currentFrame + 1 => frames'[i] = frames[i])]_vars

C10_PlaybackWraps ==
    /\ [][(/\ playing /\ timers = <<Len(frames)>>
        /\ OnlyTicks(qCur) /\ qCur' = <<>>
        /\ \A k \in 1..Len(qCur) : qCur[k].v = Len(frames))
         => (/\ currentFrame' = (currentFrame + Len(qCur)) % Len(frames)
             /\ playing' /\ timers' = timers)]_vars
    /\ [][Did("tick") => UNCHANGED <<playing, timers, currentFrame>>]_vars

\* C10 witness: a render of ticks has wrapped the cursor to frame 0 of a list
\* of at least two frames, and playback is still running.
C10_Witness ==
    /\ last = "ticks" /\ playing /\ Len(frames) >= 2 /\ currentFrame = 0
    /\ timers = <<Len(frames)>>

\* C11: no playback timer outlives the Running state: in every reachable
\* state an active timer implies playing is true, and while playing is false
\* no interval callback runs and no render of interval callbacks' updates
\* changes currentFrame.
C11_NoTimerOutlivesRunning ==
    /\ [](timers # <<>> => playing)
    /\ [][~playing => ~Did("tick")]_vars
    /\ [][(~playing /\ OnlyTicks(qCur) /\ qCur' = <<>>)
            => currentFrame' = currentFrame]_vars

\* C12: addFrame or deleteFrame while playing is true does not stop playback:
\* playing stays true, a timer is active afterwards, and every interval
\* callback that runs computes (prev + 1) modulo the length of the rendered
\* frame list, never an older length.
C12_LengthChangeKeepsPlaying ==
    /\ [][((Did("add") \/ Did("delete")) /\ playing)
            => (playing' /\ timers' # <<>>)]_vars
    /\ [][(Did("tick") /\ playing)
            => qCur'[Len(qCur')].v = Len(frames)]_vars

\* C13: a playback tick changes only the cursor.  The interval callback
\* leaves the frame list and its queued updates alone; the render of
\* interval callbacks' updates alone leaves the frame list as it was and
\* schedules no commit; the effects flushed after it queue no frame update.
C13_TickChangesOnlyCursor ==
    /\ [][Did("tick") => UNCHANGED <<frames, bFrames, qFrames>>]_vars
    /\ [][(OnlyTicks(qCur) /\ qFrames = <<>> /\ pDirty = "none" /\ qCur' = <<>>)
            => (frames' = frames /\ qFrames' = <<>> /\ ~commitPend')]_vars
    /\ [][(last = "ticks" /\ ~commitPend /\ last' = "effects")
            => UNCHANGED <<frames, bFrames, qFrames, pDirty>>]_vars

\* C13 witness: interval callbacks' updates alone have just been rendered and
\* moved the cursor while a frame holds a drawn image; the load effect is
\* scheduled, the commit effect is not, and the frame list is the one the
\* hook held before.
C13_Witness ==
    /\ last = "ticks" /\ playing /\ loadPend /\ ~commitPend
    /\ qFrames = <<>> /\ bFrames = frames
    /\ \E i \in 1..Len(frames) : frames[i].img /\ frames[i].px # {}

\* C14: export produces exactly one image per non-blank (non-null) frame and
\* none for a blank frame, and the image of the frame at 0-based position i
\* is named by the 1-based position i + 1 and holds that frame's pixels.
C14_ExportNamesByPosition ==
    exportJob.phase = "generate" =>
        LET snap == exportJob.snap
            files == exportJob.files
        IN  /\ \A i \in 1..Len(snap) :
                  snap[i].img => \E f \in files : f.name = i /\ f.px = snap[i].px
            /\ \A f \in files : f.name \in 1..Len(snap) /\ snap[f.name].img
            /\ Cardinality(files) = Cardinality({i \in 1..Len(snap) : snap[i].img})

\* C14 witness: the archive of [blank, S1, blank] has been filled and holds
\* the single file frame2 with the pixels of S1.
C14_Witness ==
    /\ exportJob.phase = "generate"
    /\ Len(exportJob.snap) = 3
    /\ ~exportJob.snap[1].img /\ ~exportJob.snap[3].img
    /\ exportJob.snap[2].img /\ exportJob.snap[2].px # {}
    /\ exportJob.files = {[name |-> 2, px |-> exportJob.snap[2].px]}

\* C15: a frame on which nothing has been drawn is excluded from export: no
\* file of an archive is the image of a surface without a painted pixel.
C15_UndrawnFrameNotExported ==
    /\ exportJob.phase = "generate" => \A f \in exportJob.files : f.px # {}
    /\ \A k \in 1..Len(downloads) : \A f \in downloads[k] : f.px # {}

\* The state of the program that export must leave alone.
EditorState ==
    <<frames, currentFrame, dirty, playing, drawing, bFrames, qFrames, bCur,
      qCur, pDirty, canvas, timers, loadPend, commitPend, playPend>>

\* C16: export is not interleaved with frame-store mutation.  The archive is
\* built from the frame list rendered when Export was clicked, whatever is
\* added, deleted, committed or ticked while the import and the archive
\* generation are pending, and no step of export changes frames,
\* currentFrame, dirty or playing.
C16_ExportSnapshot ==
    /\ [][Did("export")
            => (exportJob'.snap = frames /\ UNCHANGED EditorState)]_vars
    /\ [][(exportJob.phase = "import" /\ exportJob'.phase # "unhandled")
            => exportJob'.snap = exportJob.snap]_vars
    /\ [][(exportJob.phase = "import" /\ exportJob'.phase = "generate")
            => (exportJob'.files = ZipFiles(exportJob.snap)
                /\ UNCHANGED EditorState)]_vars
    /\ [][(exportJob.phase = "generate" /\ exportJob'.phase # "unhandled")
            => (exportJob'.phase = "idle" \/ exportJob' = exportJob)]_vars
    /\ [][downloads' # downloads
            => (downloads' = Append(downloads, ZipFiles(exportJob.snap))
                /\ UNCHANGED EditorState)]_vars

\* C16 witness: the archive has been filled from the frames of the click
\* while the rendered frame list has since changed, so that filling it now
\* would give other files.
C16_Witness ==
    /\ exportJob.phase = "generate"
    /\ exportJob.files = ZipFiles(exportJob.snap)
    /\ ZipFiles(frames) # exportJob.files
    /\ Len(frames) # Len(exportJob.snap)

\* C17: when image encoding or archive generation fails the whole export
\* fails: no archive is offered for download, and the failure is surfaced
\* as the error outcome of the export instead of ending as a promise
\* rejection that nothing handles.
C17_ExportFailureSurfaced ==
    /\ [][exportJob'.phase = "unhandled" => downloads' = downloads]_vars
    /\ [](exportJob.phase # "unhandled")

\* C18: in every quiescent state (no update queued, no effect scheduled) in
\* which dirty is false, the live drawing surface equals the stored content
\* of frames[currentFrame], or is cleared when that frame is blank.
C18_SurfaceMatchesFrame ==
    (AtRest /\ ~dirty) => canvas = LoadFrame(frames, currentFrame)

\* C18 witness: a quiescent state after strokes, commits and navigation: the
\* surface shows the drawn image of the current frame while another frame
\* stores a different surface.
C18_Witness ==
    /\ AtRest /\ ~dirty /\ canvas # {}
    /\ FrameAt(frames, currentFrame).img
    /\ canvas = FrameAt(frames, currentFrame).px
    /\ \E i \in 1..Len(frames) : i # currentFrame + 1 /\ frames[i].px # canvas

\* The frame list once every queued update has been rendered.
Settled == FoldF(qFrames, bFrames)

\* Pixels painted on the live surface that no frame holds, stored or queued:
\* strokes drawn on the displayed frame and not yet committed.
Unsaved == canvas \ UNION {Settled[i].px : i \in 1..Len(Settled)}

\* C19: a dirty commit never writes pixels drawn while frame A was displayed
\* into a different frame slot B.  Stated on deleteFrame: when the displayed
\* frame is deleted, its unsaved strokes go with it, so no frame of the list
\* that results from the delete and the commits queued with it holds them.
C19_CommitStaysInSlot ==
    [][Did("delete")
         => \A i \in 1..Len(Settled') : Settled'[i].px \cap Unsaved = {}]_vars

\* C20: at most one playback interval timer is active at any time, for every
\* sequence of play/pause toggles and length changes.
C20_AtMostOneTimer == Len(timers) <= 1

\* C20 witness: the playback effect has just run while playing with a list
\* of several frames and a stroke committed: exactly one timer, created for
\* the current length, is active.
C20_Witness ==
    /\ last = "effects" /\ playing /\ Len(frames) >= 2
    /\ timers = <<Len(frames)>>
    /\ \E i \in 1..Len(frames) : frames[i].img

====
